---- MODULE Spec2Model ----
(***************************************************************************)
(* Model of the pack delta tree of git-pack (src/git-pack/src/cache/delta/ *)
(* mod.rs): Tree::with_capacity, add_root, add_child and the seal step     *)
(* set_pack_entries_end_and_resolve_ref_offsets, together with the layout  *)
(* of the VecDeque that stores the items (its two slices, its capacity and *)
(* how it grows).  Offsets are natural numbers; the payload `data` of an   *)
(* item is never read by the tree and is left out of the item record.      *)
(* Indices are 0-based as in the code; TLA+ sequences are 1-based, so      *)
(* items[i + 1] is the code's items[i].                                    *)
(* The module also models to_write, the pack index writer of git-odb       *)
(* (SpecIndex), and the release loops of cargo-smart-release               *)
(* (SpecRelease), its planning (SpecPlan) and the search for a dependency   *)
(* that links back to a publishee (SpecHops, SpecHopsFair); each has its   *)
(* own variables and specification.                                        *)
(***************************************************************************)
EXTENDS Integers, Sequences, FiniteSets, TLC

\* ---------------------------------------------------------------- bounds
MaxOffset == 3
MaxCap == 2
\* the index writer: number of entries, and length of an object id in bytes
MaxEntries == 2
HashLen == 2
\* the release tool: number of crates of the workspace
MaxCrates == 2
\* the release tool: number of dependencies declared in the manifests
MaxDeps == 3

Offsets == 1..MaxOffset
\* MaxOffset + 1 is a base offset that no item can have
BaseOffsets == 1..(MaxOffset + 1)
PackEnds == 1..(MaxOffset + 1)
Capacities == 0..MaxCap

VARIABLES
  num_objects,           \* the argument of Tree::with_capacity
  items,                 \* VecDeque<Item<T>>, front to back
  head,                  \* VecDeque: physical index of the front element
  cap,                   \* VecDeque: capacity of the ring buffer
  roots,                 \* Tree::roots
  last_index,            \* Tree::last_index
  future_child_offsets,  \* Tree::future_child_offsets
  call,                  \* the most recent call and its arguments
  result,                \* what that call returned (or that it panicked)
  inserted,              \* history: the successful insertions, in order
  queued,                \* history: every pair pushed to future_child_offsets
  entries_sorted_by_oid, \* to_write: the entries, records of offset, id, crc32
  pack_hash,             \* to_write: the hash of the pack
  kind,                  \* to_write: the index version asked for
  w_pc,                  \* to_write: the statement it is at
  w_i,                   \* to_write: the index of the loop it is in
  out,                   \* hash::Write: inner (the bytes the sink has) and
                         \* hashed (the bytes the hasher has seen)
  ret,                   \* to_write: what it returned
  wlog,                  \* history: the write calls made on the sink
  r_options,             \* release: Options (dry_run, skip_publish)
  r_deps,                \* release: meta, the pairs <<a, b>>: a depends on b
  r_singles,             \* release: the crates released one by one, in order
  r_group,               \* release: crates_to_publish_together, in order
  r_phase,               \* release: which of the two loops is running
  r_pc,                  \* release: the call the loop is at
  r_idx,                 \* release: the crate the loop is at
  r_attempt,             \* publish_crate: attempt
  r_log,                 \* history: the effects on manifests, repository and
                         \* registry, and what each step returned
  r_ret,                 \* release: what it returned
  meta,                  \* cargo metadata: packages, workspace_members and
                         \* the dependencies of the packages
  plan,                  \* release_depth_first up to line 168: crate_names,
                         \* the crates that changed, ignore_instability,
                         \* and what the planning computed
  hops                   \* hops_for_dependency_to_link_back_to_publishee:
                         \* source, destination, package_ids, seen, result

tvars == <<num_objects, items, head, cap, roots, last_index, future_child_offsets,
           call, result, inserted, queued>>

wvars == <<entries_sorted_by_oid, pack_hash, kind, w_pc, w_i, out, ret, wlog>>

rvars == <<r_options, r_deps, r_singles, r_group, r_phase, r_pc, r_idx, r_attempt,
           r_log, r_ret>>

pvars == <<meta, plan, hops>>

vars == <<tvars, wvars, rvars, pvars>>

\* ------------------------------------------------------------- results
NoCall == [op |-> "none", offset |-> 0, base_offset |-> 0, pack_entries_end |-> 0]
Ok == [kind |-> "Ok", last_pack_offset |-> 0, pack_offset |-> 0, base_pack_offset |-> 0]
Panic == [kind |-> "Panic", last_pack_offset |-> 0, pack_offset |-> 0, base_pack_offset |-> 0]
InvariantIncreasingPackOffset(last, current) ==
  [kind |-> "InvariantIncreasingPackOffset", last_pack_offset |-> last,
   pack_offset |-> current, base_pack_offset |-> 0]
OutOfPackRefDelta(base) ==
  [kind |-> "OutOfPackRefDelta", last_pack_offset |-> 0, pack_offset |-> 0,
   base_pack_offset |-> base]

Range(seq) == {seq[i] : i \in 1..Len(seq)}

NewItem(offset) == [offset |-> offset, next_offset |-> 0, children |-> <<>>]

Max(a, b) == IF a >= b THEN a ELSE b

\* ------------------------------------------------------------ VecDeque
\* length of the first slice of as_mut_slices(): the elements from `head`
\* up to the end of the buffer, or all of them when they do not wrap
FrontLen(its, h, c) == IF h + Len(its) <= c THEN Len(its) ELSE c - h

as_mut_slices(its, h, c) ==
  [roots |-> SubSeq(its, 1, FrontLen(its, h, c)),
   children |-> SubSeq(its, FrontLen(its, h, c) + 1, Len(its))]

\* VecDeque::grow of a full buffer (len = old capacity): the capacity is at
\* least doubled, and the wrapped elements are made addressable again by
\* moving the shorter section
grow(its, h, c) ==
  LET new_cap == Max(2 * c, 4)
      head_len == c - h
      tail_len == Len(its) - head_len
  IN  IF h <= c - Len(its) THEN [head |-> h, cap |-> new_cap]
      ELSE IF head_len > tail_len /\ new_cap - c >= tail_len
             THEN [head |-> h, cap |-> new_cap]
             ELSE [head |-> new_cap - head_len, cap |-> new_cap]

reserve_one(its, h, c) ==
  IF Len(its) = c THEN grow(its, h, c) ELSE [head |-> h, cap |-> c]

push_back_for_root(its, h, c, item) ==
  LET g == reserve_one(its, h, c)
  IN  [items |-> Append(its, item), head |-> g.head, cap |-> g.cap]

push_front(its, h, c, item) ==
  LET g == reserve_one(its, h, c)
  IN  [items |-> <<item>> \o its,
       head |-> (g.head + g.cap - 1) % g.cap,
       cap |-> g.cap]

push_front_for_child(its, h, c, item) ==
  LET g == reserve_one(its, h, c)
  IN  [items |-> <<item>> \o its,
       head |-> (g.head + g.cap - 1) % g.cap,
       cap |-> g.cap]

push_back(its, h, c, item) ==
  LET g == reserve_one(its, h, c)
  IN  [items |-> Append(its, item), head |-> g.head, cap |-> g.cap]

\* ------------------------------------------------------- binary search
\* slice::binary_search_by over the offsets of a slice; `reversed` is the
\* comparator parent_offset.cmp(&i.offset) used for the roots, otherwise
\* the comparator is i.offset.cmp(&parent_offset).  The result is the
\* 0-based index of the hit, or -1 for Err(_).
Less(slice, mid, target, reversed) ==
  IF reversed THEN target < slice[mid + 1].offset
              ELSE slice[mid + 1].offset < target

RECURSIVE binary_search(_, _, _, _, _)
binary_search(slice, target, reversed, left, right) ==
  IF left >= right THEN -1
  ELSE LET mid == left + ((right - left) \div 2)
       IN  IF slice[mid + 1].offset = target THEN mid
           ELSE IF Less(slice, mid, target, reversed)
                  THEN binary_search(slice, target, reversed, mid + 1, right)
                  ELSE binary_search(slice, target, reversed, left, mid)

search_children(children, target) ==
  binary_search(children, target, FALSE, 0, Len(children))

search_roots_ascending(rts, target) ==
  binary_search(rts, target, FALSE, 0, Len(rts))

search_roots(rts, target) ==
  binary_search(rts, target, TRUE, 0, Len(rts))

\* children[pos].children.push(index), pos a 1-based position of the store
push_child_up_to(its, pos, index) ==
  [i \in 1..Len(its) |->
     IF i <= pos THEN [its[i] EXCEPT !.children = Append(@, index)] ELSE its[i]]

push_child(its, pos, index) ==
  [its EXCEPT ![pos].children = Append(@, index)]

\* the linking step shared by add_child and the seal loop: the position in
\* the store of the item that receives the child, 0 when neither slice has
\* the offset.  nroots is the length of the first slice.
find_parent_unshifted(its, nroots, parent_offset) ==
  LET rts == SubSeq(its, 1, nroots)
      children == SubSeq(its, nroots + 1, Len(its))
      ci == search_children(children, parent_offset)
      ri == search_roots(rts, parent_offset)
  IN  IF ci >= 0 THEN ci + 1
      ELSE IF ri >= 0 THEN ri + 1
      ELSE 0

find_parent(its, nroots, parent_offset) ==
  LET rts == SubSeq(its, 1, nroots)
      children == SubSeq(its, nroots + 1, Len(its))
      ci == search_children(children, parent_offset)
      ri == search_roots(rts, parent_offset)
  IN  IF ci >= 0 THEN nroots + ci + 1
      ELSE IF ri >= 0 THEN ri + 1
      ELSE 0

\* ------------------------------------------------- Tree: offset monitor
offset_violates_strict(offset) ==
  items # <<>> /\ offset < items[last_index + 1].offset

offset_violates_front(offset) ==
  items # <<>> /\ offset <= items[1].offset

offset_violates(offset) ==
  items # <<>> /\ offset <= items[last_index + 1].offset

\* the store after assert_is_incrementing_and_update_next_offset returned
\* Err: the return is ahead of the assignment to item.next_offset
stamp_before_check(its, index, offset) ==
  IF its = <<>> THEN its ELSE [its EXCEPT ![index + 1].next_offset = offset]

items_after_failed_check(its, index, offset) == its

\* the store after assert_is_incrementing_and_update_next_offset returned Ok
stamp_next_offset_front(its, index, offset) ==
  IF its = <<>> THEN its ELSE [its EXCEPT ![1].next_offset = offset]

stamp_next_offset(its, index, offset) ==
  IF its = <<>> THEN its ELSE [its EXCEPT ![index + 1].next_offset = offset]

\* future_child_offsets after the linking step of add_child
queue_always(pending, parent, base_offset, child_index) ==
  Append(pending, <<base_offset, child_index>>)

queue_future_child(pending, parent, base_offset, child_index) ==
  IF parent > 0 THEN pending ELSE Append(pending, <<base_offset, child_index>>)

\* self.last_index after add_root: the new root is at the front
last_index_after_root_shifted(index) == index + 1

last_index_after_root(index) == 0

\* next_child_index in add_child: children.len()
child_index_in_store(slices) == Len(slices.roots) + Len(slices.children)

child_index_of(slices) == Len(slices.children)

Done == result.kind = "Panic" \/ call.op = "seal"

\* no release is running
ReleaseIdle ==
  /\ r_options = [dry_run |-> FALSE, skip_publish |-> FALSE]
  /\ r_deps = {}
  /\ r_singles = <<>>
  /\ r_group = <<>>
  /\ r_phase = "idle"
  /\ r_pc = "idle"
  /\ r_idx = 0
  /\ r_attempt = 0
  /\ r_log = <<>>
  /\ r_ret = "none"

\* no release is being planned and no search is running
NoMeta == [packages |-> {}, workspace_members |-> {}, dependencies |-> {}]
NoPlan ==
  [crate_names |-> <<>>, changed |-> {}, ignore_instability |-> FALSE,
   pc |-> "idle", changed_crate_names_to_publish |-> <<>>,
   crates_to_publish_additionally_to_avoid_instability |-> <<>>]
NoHops ==
  [source |-> 0, destination |-> 0, package_ids |-> <<>>, seen |-> {},
   result |-> "idle", hops |-> 0, expanded |-> <<>>]
PlanIdle == meta = NoMeta /\ plan = NoPlan /\ hops = NoHops

\* no index is being written
WriterIdle ==
  /\ entries_sorted_by_oid = <<>>
  /\ pack_hash = <<>>
  /\ kind = 0
  /\ w_pc = "idle"
  /\ w_i = 0
  /\ out = [inner |-> <<>>, hashed |-> <<>>]
  /\ ret = [kind |-> "none", index_hash |-> <<>>]
  /\ wlog = <<>>

\* ------------------------------------------------------------- actions
\* VecDeque::with_capacity(num_objects): an empty buffer of that capacity
with_capacity(n) ==
  /\ num_objects = n
  /\ items = <<>>
  /\ head = 0
  /\ cap = n

Init ==
  /\ \E n \in Capacities : with_capacity(n)
  /\ roots = 0
  /\ last_index = 0
  /\ future_child_offsets = <<>>
  /\ call = NoCall
  /\ result = Ok
  /\ inserted = <<>>
  /\ queued = <<>>
  /\ WriterIdle
  /\ ReleaseIdle
  /\ PlanIdle

add_root(offset) ==
  /\ ~Done
  /\ UNCHANGED <<num_objects, wvars, rvars, pvars>>
  /\ call' = [op |-> "add_root", offset |-> offset, base_offset |-> 0,
              pack_entries_end |-> 0]
  /\ IF offset_violates(offset)
       THEN /\ result' = InvariantIncreasingPackOffset(items[last_index + 1].offset, offset)
            /\ items' = items_after_failed_check(items, last_index, offset)
            /\ UNCHANGED <<head, cap, roots, last_index,
                           future_child_offsets, inserted, queued>>
       ELSE LET d == push_front(stamp_next_offset(items, last_index, offset),
                                head, cap, NewItem(offset))
            IN  /\ last_index' = last_index_after_root(last_index)
                /\ items' = d.items
                /\ head' = d.head
                /\ cap' = d.cap
                /\ roots' = roots + 1
                /\ result' = Ok
                /\ inserted' = Append(inserted, [offset |-> offset, root |-> TRUE,
                                                 base_offset |-> 0])
                /\ UNCHANGED <<future_child_offsets, queued>>

add_child(base_offset, offset) ==
  /\ ~Done
  /\ UNCHANGED <<num_objects, wvars, rvars, pvars>>
  /\ call' = [op |-> "add_child", offset |-> offset, base_offset |-> base_offset,
              pack_entries_end |-> 0]
  /\ IF offset_violates(offset)
       THEN /\ result' = InvariantIncreasingPackOffset(items[last_index + 1].offset, offset)
            /\ items' = items_after_failed_check(items, last_index, offset)
            /\ UNCHANGED <<head, cap, roots, last_index,
                           future_child_offsets, inserted, queued>>
       ELSE LET stamped == stamp_next_offset(items, last_index, offset)
                slices == as_mut_slices(stamped, head, cap)
                next_child_index == child_index_of(slices)
                parent == find_parent(stamped, Len(slices.roots), base_offset)
                linked == IF parent > 0
                            THEN push_child(stamped, parent, next_child_index)
                            ELSE stamped
                d == push_back(linked, head, cap, NewItem(offset))
            IN  IF Len(slices.roots) # roots
                  THEN /\ result' = Panic
                       /\ items' = stamped
                       /\ UNCHANGED <<head, cap, roots, last_index,
                                      future_child_offsets, inserted, queued>>
                  ELSE /\ future_child_offsets' =
                            queue_future_child(future_child_offsets, parent,
                                               base_offset, next_child_index)
                       /\ queued' = queue_future_child(queued, parent, base_offset,
                                                       next_child_index)
                       /\ last_index' = Len(items)
                       /\ items' = d.items
                       /\ head' = d.head
                       /\ cap' = d.cap
                       /\ result' = Ok
                       /\ inserted' = Append(inserted, [offset |-> offset, root |-> FALSE,
                                                        base_offset |-> base_offset])
                       /\ UNCHANGED roots

\* the loop over future_child_offsets.drain(..): the store after the loop
\* and the base offset it failed on (0: every entry was resolved)
RECURSIVE resolve_ref_offsets(_, _, _)
resolve_ref_offsets(its, nroots, pending) ==
  IF pending = <<>> THEN [items |-> its, failed |-> 0]
  ELSE LET parent_offset == Head(pending)[1]
           child_index == Head(pending)[2]
           parent == find_parent(its, nroots, parent_offset)
       IN  IF parent > 0
             THEN resolve_ref_offsets(push_child(its, parent, child_index),
                                      nroots, Tail(pending))
             ELSE [items |-> its, failed |-> parent_offset]

stamp_pack_entries_end(its, index, pack_entries_end) ==
  [its EXCEPT ![index + 1].next_offset = pack_entries_end]

seal_body(pack_entries_end) ==
  /\ call' = [op |-> "seal", offset |-> 0, base_offset |-> 0,
              pack_entries_end |-> pack_entries_end]
  /\ UNCHANGED <<num_objects, head, cap, roots, last_index, inserted, queued, wvars,
                 rvars, pvars>>
  /\ IF items = <<>>
       THEN /\ result' = Ok
            /\ UNCHANGED <<items, future_child_offsets>>
       ELSE IF future_child_offsets = <<>>
         THEN /\ items' = stamp_pack_entries_end(items, last_index, pack_entries_end)
              /\ result' = Ok
              /\ UNCHANGED future_child_offsets
         ELSE LET slices == as_mut_slices(items, head, cap)
                  r == resolve_ref_offsets(items, Len(slices.roots), future_child_offsets)
              IN  IF Len(slices.roots) # roots
                    THEN /\ result' = Panic
                         /\ UNCHANGED <<items, future_child_offsets>>
                    ELSE /\ future_child_offsets' = <<>>
                         /\ IF r.failed # 0
                              THEN /\ result' = OutOfPackRefDelta(r.failed)
                                   /\ items' = r.items
                              ELSE /\ result' = Ok
                                   /\ items' = stamp_pack_entries_end(r.items, last_index,
                                                                      pack_entries_end)

set_pack_entries_end_and_resolve_ref_offsets(pack_entries_end) ==
  /\ ~Done
  /\ seal_body(pack_entries_end)

\* the same function called once more, with the same argument, on a tree
\* whose seal returned the dangling-base error
seal_again ==
  /\ call.op = "seal"
  /\ result.kind = "OutOfPackRefDelta"
  /\ seal_body(call.pack_entries_end)

AddRoot == \E offset \in Offsets : add_root(offset)
AddChild == \E base_offset \in BaseOffsets, offset \in Offsets : add_child(base_offset, offset)
Seal == \E pack_entries_end \in PackEnds :
          set_pack_entries_end_and_resolve_ref_offsets(pack_entries_end)

Next == AddRoot \/ AddChild \/ Seal

Spec == Init /\ [][Next]_vars

SealAgain == seal_again

NextReseal == AddRoot \/ AddChild \/ Seal \/ SealAgain

SpecReseal == Init /\ [][NextReseal]_vars

\* ====================================================== index writer
\* to_write of git-odb (src/git-odb/src/pack/index/write/encode.rs).
\* A byte is scaled down to two bits, so a fan-out table has ByteMod
\* entries; a u32 keeps its four bytes and a u64 its eight, and the large
\* offset threshold and the high bit keep their place in the u32.
ByteMod == 2 * 2
Byte == 0..(ByteMod - 1)
U32Mod == ByteMod * ByteMod * ByteMod * ByteMod
U64Mod == U32Mod * U32Mod
LARGE_OFFSET_THRESHOLD == (U32Mod \div 2) - 1
HIGH_BIT == U32Mod \div 2

\* V2_SIGNATURE, four bytes
V2_SIGNATURE == <<ByteMod - 1, 1, 2, 1>>
V1 == 1
V2 == 2

\* ----------------------------------------------------------- encoding
RECURSIVE be_bytes(_, _)
\* the n bytes of v, most significant first
be_bytes(v, n) ==
  IF n = 0 THEN <<>> ELSE Append(be_bytes(v \div ByteMod, n - 1), v % ByteMod)

RECURSIVE le_bytes(_, _)
\* the n bytes of v, least significant first
le_bytes(v, n) ==
  IF n = 0 THEN <<>> ELSE <<v % ByteMod>> \o le_bytes(v \div ByteMod, n - 1)

\* a u32 that went through to_be() and is then written as raw memory
u32_to_be_raw(v) == be_bytes(v % U32Mod, 4)

\* a u32 written as raw memory without to_be(): the bytes of the host,
\* little-endian on the targets the crate is built for
u32_raw_le(v) == le_bytes(v % U32Mod, 4)

\* write_u32::<BigEndian>
write_u32_be(v) == be_bytes(v % U32Mod, 4)

u64_to_be_raw(v) == be_bytes(v % U64Mod, 8)

RECURSIVE Flatten(_)
Flatten(seqs) == IF seqs = <<>> THEN <<>> ELSE Head(seqs) \o Flatten(Tail(seqs))

\* x & HIGH_BIT on u32
and_high_bit(x) == IF ((x % U32Mod) \div HIGH_BIT) % 2 = 1 THEN HIGH_BIT ELSE 0

\* x | HIGH_BIT on u32
or_high_bit(x) == IF and_high_bit(x) = HIGH_BIT THEN x % U32Mod ELSE (x % U32Mod) + HIGH_BIT

\* out.hash.digest(): a hash of the bytes the hasher has seen, HashLen bytes.
\* Every byte counts with its position, so that a change of a byte, of the
\* order or of the length changes the sum; the range is halved at each step.
RECURSIVE digest_value(_, _, _)
digest_value(bytes, lo, hi) ==
  IF lo > hi THEN 7
  ELSE IF lo = hi THEN ((bytes[lo] + 1) * (2 * lo + 1)) % 251
  ELSE LET mid == (lo + hi) \div 2
       IN  (digest_value(bytes, lo, mid) + digest_value(bytes, mid + 1, hi)) % 251

digest(bytes) == be_bytes(digest_value(bytes, 1, Len(bytes)), HashLen)

\* ------------------------------------------------------------- inputs
Ids == {[j \in 1..HashLen |-> IF j = 1 THEN f ELSE t] : f \in Byte, t \in 0..1}
PackOffsets == {1, LARGE_OFFSET_THRESHOLD, HIGH_BIT, U32Mod + 1}
Crc32s == {2, HIGH_BIT + 1}
PackHashes == {[j \in 1..HashLen |-> 1], [j \in 1..HashLen |-> 2]}
Kinds == {V1, V2}
Entries == [offset : PackOffsets, id : Ids, crc32 : Crc32s]

RECURSIVE id_value(_)
id_value(id) == IF id = <<>> THEN 0 ELSE id_value(SubSeq(id, 1, Len(id) - 1)) * ByteMod + id[Len(id)]

SortedByOid(es) == \A k \in 1..(Len(es) - 1) : id_value(es[k].id) < id_value(es[k + 1].id)

EntryLists == {es \in UNION {[1..n -> Entries] : n \in 0..MaxEntries} : SortedByOid(es)}

\* ------------------------------------------- the loop of lines 42 to 56
needs_64bit_offsets(es) == es[Len(es)].offset > LARGE_OFFSET_THRESHOLD

\* one iteration, idx 0-based: st holds fan_out_be (indexed by byte),
\* first_byte, offsets_be, offsets64_be and whether an assertion failed
index_loop_step(st, es, idx) ==
  LET e == es[idx + 1]
      st1 == IF st.first_byte # e.id[1]
               THEN [st EXCEPT !.fan_out_be[st.first_byte] = idx % U32Mod,
                               !.first_byte = (st.first_byte + 1) % ByteMod]
               ELSE st
  IN  IF needs_64bit_offsets(es) /\ e.offset > LARGE_OFFSET_THRESHOLD
        THEN IF Len(st1.offsets64_be) < LARGE_OFFSET_THRESHOLD
               THEN [st1 EXCEPT !.offsets_be = Append(@, and_high_bit(Len(st1.offsets64_be))),
                                !.offsets64_be = Append(@, e.offset)]
               ELSE [st1 EXCEPT !.panicked = TRUE]
        ELSE st1

RECURSIVE index_loop(_, _, _)
index_loop(st, es, idx) ==
  IF idx >= Len(es) \/ st.panicked THEN st
  ELSE index_loop(index_loop_step(st, es, idx), es, idx + 1)

tables(es) ==
  index_loop([fan_out_be |-> [b \in Byte |-> 0], first_byte |-> 0,
              offsets_be |-> <<>>, offsets64_be |-> <<>>, panicked |-> FALSE],
             es, 0)

fan_out_bytes(es) == Flatten([b \in 1..ByteMod |-> u32_to_be_raw(tables(es).fan_out_be[b - 1])])

offsets_be_bytes(es) ==
  Flatten([k \in 1..Len(tables(es).offsets_be) |-> u32_raw_le(tables(es).offsets_be[k])])

offsets64_be_bytes(es) ==
  Flatten([k \in 1..Len(tables(es).offsets64_be) |-> u64_to_be_raw(tables(es).offsets64_be[k])])

\* --------------------------------------------------------- hash::Write
\* io::Write for hash::Write: what reached the sink is also hashed
hash_write(w, buf) == [inner |-> w.inner \o buf, hashed |-> w.hashed \o buf]

\* out.inner.write_all: the sink alone
inner_write(w, buf) == [w EXCEPT !.inner = @ \o buf]

\* what a failing write_all may have handed to the sink before the error
FailedPrefixes(buf) == {SubSeq(buf, 1, n) : n \in {0, Len(buf) - 1}}

\* the statement to_write is at after a write returned an error: `?`
ignore_write_error(next_pc) == next_pc

after_write_error(next_pc) == "failed"

index_hash_before_pack_hash(w) == digest(SubSeq(w.hashed, 1, Len(w.hashed) - HashLen))

index_hash_of(w) == digest(w.hashed)

\* ------------------------------------------------------------ actions
InitIndex ==
  /\ num_objects = 0 /\ items = <<>> /\ head = 0 /\ cap = 0
  /\ roots = 0 /\ last_index = 0 /\ future_child_offsets = <<>>
  /\ call = NoCall /\ result = Ok /\ inserted = <<>> /\ queued = <<>>
  /\ entries_sorted_by_oid \in EntryLists
  /\ pack_hash \in PackHashes
  /\ kind \in Kinds
  /\ w_pc = "start"
  /\ w_i = 0
  /\ out = [inner |-> <<>>, hashed |-> <<>>]
  /\ ret = [kind |-> "none", index_hash |-> <<>>]
  /\ wlog = <<>>
  /\ ReleaseIdle
  /\ PlanIdle

WriterFrame ==
  UNCHANGED <<tvars, rvars, pvars, entries_sorted_by_oid, pack_hash, kind>>

\* one write of buf for `section` through hash::Write, then on to next_pc
emit(section, buf, next_pc, next_i) ==
  \/ /\ out' = hash_write(out, buf)
     /\ wlog' = Append(wlog, [section |-> section, bytes |-> buf, ok |-> TRUE])
     /\ w_pc' = next_pc
     /\ w_i' = next_i
     /\ UNCHANGED ret
  \/ \E written \in FailedPrefixes(buf) :
       /\ out' = hash_write(out, written)
       /\ wlog' = Append(wlog, [section |-> section, bytes |-> written, ok |-> FALSE])
       /\ w_pc' = after_write_error(next_pc)
       /\ w_i' = IF after_write_error(next_pc) = "failed" THEN w_i ELSE next_i
       /\ ret' = [kind |-> "Err", index_hash |-> <<>>]

panic ==
  /\ w_pc' = "panicked"
  /\ ret' = [kind |-> "Panic", index_hash |-> <<>>]
  /\ UNCHANGED <<w_i, out, wlog>>

\* lines 13 to 21: some assertion on the arguments fails
arguments_rejected_by_kind(es, k) ==
  k # V2 \/ ~(Len(es) <= U32Mod - 1)

arguments_rejected(es, k) ==
  es = <<>> \/ k # V2 \/ ~(Len(es) <= U32Mod - 1)

check_arguments ==
  /\ w_pc = "start"
  /\ WriterFrame
  /\ IF arguments_rejected(entries_sorted_by_oid, kind)
       THEN panic
       ELSE /\ w_pc' = "signature"
            /\ UNCHANGED <<w_i, out, ret, wlog>>

write_signature ==
  /\ w_pc = "signature"
  /\ WriterFrame
  /\ emit("header", V2_SIGNATURE, "version", 0)

write_version ==
  /\ w_pc = "version"
  /\ WriterFrame
  /\ emit("header", write_u32_be(kind), "fan_out", 0)

\* lines 31 to 60: the tables are computed, the fan-out table is written
write_fan_out ==
  /\ w_pc = "fan_out"
  /\ WriterFrame
  /\ IF tables(entries_sorted_by_oid).panicked
       THEN panic
       ELSE emit("fan_out", fan_out_bytes(entries_sorted_by_oid), "ids", 0)

write_id ==
  /\ w_pc = "ids"
  /\ WriterFrame
  /\ IF w_i < Len(entries_sorted_by_oid)
       THEN emit("ids", entries_sorted_by_oid[w_i + 1].id, "ids", w_i + 1)
       ELSE /\ w_pc' = "crc32"
            /\ w_i' = 0
            /\ UNCHANGED <<out, ret, wlog>>

write_crc32 ==
  /\ w_pc = "crc32"
  /\ WriterFrame
  /\ IF w_i < Len(entries_sorted_by_oid)
       THEN emit("crc32", write_u32_be(entries_sorted_by_oid[w_i + 1].crc32), "crc32", w_i + 1)
       ELSE /\ w_pc' = "offsets"
            /\ w_i' = 0
            /\ UNCHANGED <<out, ret, wlog>>

\* lines 69 to 73 and 80 to 84
write_offsets ==
  /\ w_pc = "offsets"
  /\ WriterFrame
  /\ LET t == tables(entries_sorted_by_oid)
     IN  IF Len(t.offsets64_be) > 0
           THEN IF Len(t.offsets_be) # Len(entries_sorted_by_oid)
                  THEN panic
                  ELSE emit("offsets", offsets_be_bytes(entries_sorted_by_oid), "offsets64", 0)
           ELSE IF w_i < Len(entries_sorted_by_oid)
                  THEN emit("offsets", write_u32_be(entries_sorted_by_oid[w_i + 1].offset),
                            "offsets", w_i + 1)
                  ELSE /\ w_pc' = "pack_hash"
                       /\ w_i' = 0
                       /\ UNCHANGED <<out, ret, wlog>>

\* lines 77 to 79
write_offsets64 ==
  /\ w_pc = "offsets64"
  /\ WriterFrame
  /\ emit("offsets64", offsets64_be_bytes(entries_sorted_by_oid), "pack_hash", 0)

write_pack_hash ==
  /\ w_pc = "pack_hash"
  /\ WriterFrame
  /\ emit("pack_hash", pack_hash, "index_hash", 0)

\* lines 88 to 91: the digest goes to the sink behind the hasher
write_index_hash ==
  /\ w_pc = "index_hash"
  /\ WriterFrame
  /\ LET index_hash == index_hash_of(out)
     IN  \/ /\ out' = inner_write(out, index_hash)
            /\ wlog' = Append(wlog, [section |-> "index_hash", bytes |-> index_hash,
                                     ok |-> TRUE])
            /\ w_pc' = "done"
            /\ ret' = [kind |-> "Ok", index_hash |-> index_hash]
            /\ UNCHANGED w_i
         \/ \E written \in FailedPrefixes(index_hash) :
              /\ out' = inner_write(out, written)
              /\ wlog' = Append(wlog, [section |-> "index_hash", bytes |-> written,
                                       ok |-> FALSE])
              /\ w_pc' = after_write_error("done")
              /\ ret' = IF after_write_error("done") = "failed"
                          THEN [kind |-> "Err", index_hash |-> <<>>]
                          ELSE [kind |-> "Ok", index_hash |-> index_hash]
              /\ UNCHANGED w_i

NextIndex ==
  \/ check_arguments
  \/ write_signature
  \/ write_version
  \/ write_fan_out
  \/ write_id
  \/ write_crc32
  \/ write_offsets
  \/ write_offsets64
  \/ write_pack_hash
  \/ write_index_hash

SpecIndex == InitIndex /\ [][NextIndex]_vars

\* ======================================================= release tool
\* release_depth_first of cargo-smart-release
\* (src/cargo-smart-release/src/command/release.rs) from line 170 on: the
\* crates are released one by one, then the crates of the publish group
\* together.  Crates are numbered in resolution order.
Crates == 1..MaxCrates

max_attempts == 3

\* the ascending sequence of a set of crates: resolution order
InResolutionOrder(set) ==
  CHOOSE f \in [1..Cardinality(set) -> set] :
    \A i, j \in 1..Cardinality(set) : i < j => f[i] < f[j]

\* meta: no dependency at all, or every crate depends on the one before it
DependencyGraphs == {{}, {<<c, c - 1>> : c \in 2..MaxCrates}}

OptionSets == [dry_run : BOOLEAN, skip_publish : BOOLEAN]

\* packages_to_fix: the workspace members depending on a publishee
packages_to_fix(publishees) ==
  {c \in Crates : c \notin publishees /\ \E p \in publishees : <<c, p>> \in r_deps}

\* locks_by_manifest_path.into_values(): the manifests to persist, in order
manifest_locks(publishees) ==
  InResolutionOrder(publishees \cup packages_to_fix(publishees))

\* skip_publish || dry_run || ..: cargo publish is not executed
publish_skipped_by_flag(options) == options.skip_publish

publish_skipped(options) == options.skip_publish \/ options.dry_run

\* attempt == max_attempts
never_last_attempt(attempt) == FALSE

is_last_attempt(attempt) == attempt = max_attempts

\* the ? operator of release_depth_first and perform_single_release:
\* where the run is after a step returned
continue_after_error(ok, next_pc) == next_pc

after_step(ok, next_pc) == IF ok THEN next_pc ELSE "failed"

Effect(what, crates, ok) == [what |-> what, crates |-> crates, ok |-> ok]
Returned(step, crates, ok) == [what |-> step, crates |-> crates, ok |-> ok]

InitRelease ==
  /\ num_objects = 0 /\ items = <<>> /\ head = 0 /\ cap = 0
  /\ roots = 0 /\ last_index = 0 /\ future_child_offsets = <<>>
  /\ call = NoCall /\ result = Ok /\ inserted = <<>> /\ queued = <<>>
  /\ WriterIdle
  /\ r_options \in OptionSets
  /\ r_deps \in DependencyGraphs
  /\ \E one_by_one \in SUBSET Crates, together \in SUBSET Crates :
       /\ one_by_one \cap together = {}
       /\ one_by_one \cup together # {}
       /\ r_singles = InResolutionOrder(one_by_one)
       /\ r_group = InResolutionOrder(together)
       /\ r_phase = IF one_by_one # {} THEN "single" ELSE "together"
  /\ r_pc = "edit"
  /\ r_idx = 1
  /\ r_attempt = 1
  /\ r_log = <<>>
  /\ r_ret = "none"
  /\ PlanIdle

ReleaseFrame ==
  UNCHANGED <<tvars, wvars, pvars, r_options, r_deps, r_singles, r_group>>

\* the crate the loop is at, and the publishees of the manifest edit
publishee == IF r_phase = "single" THEN r_singles[r_idx] ELSE r_group[r_idx]
publishees == IF r_phase = "single" THEN {r_singles[r_idx]} ELSE Range(r_group)

\* a step returned: the log gets what it did and what it returned, and the
\* run goes on at next or ends with the error
step_returns(step, crates, effects, ok, next) ==
  /\ r_log' = r_log \o effects \o <<Returned(step, crates, ok)>>
  /\ r_pc' = after_step(ok, next.pc)
  /\ r_phase' = IF after_step(ok, next.pc) = "failed" THEN r_phase ELSE next.phase
  /\ r_idx' = IF after_step(ok, next.pc) = "failed" THEN r_idx ELSE next.idx
  /\ r_attempt' = 1
  /\ r_ret' = IF after_step(ok, next.pc) = "failed" THEN "Err"
              ELSE IF after_step(ok, next.pc) = "done" THEN "Ok"
              ELSE "none"

Here == [pc |-> r_pc, phase |-> r_phase, idx |-> r_idx]

\* where the run goes after the tag of the crate it is at
after_tag ==
  IF r_phase = "single"
    THEN IF r_idx < Len(r_singles)
           THEN [pc |-> "edit", phase |-> "single", idx |-> r_idx + 1]
           ELSE IF r_group # <<>>
                  THEN [pc |-> "edit", phase |-> "together", idx |-> 1]
                  ELSE [pc |-> "done", phase |-> "single", idx |-> r_idx]
    ELSE IF r_idx < Len(r_group)
           THEN [pc |-> "publish", phase |-> "together", idx |-> r_idx + 1]
           ELSE [pc |-> "done", phase |-> "together", idx |-> r_idx]

\* the manifests of the first n locks are persisted
persisted(locks, n) == [k \in 1..n |-> Effect("manifest", {locks[k]}, TRUE)]

\* bump_version and edit_manifest_and_fixup_dependent_crates, lines 354 to
\* 366 and 182 to 201
edit_manifest_and_fixup_dependent_crates ==
  /\ r_pc = "edit"
  /\ ReleaseFrame
  /\ LET locks == manifest_locks(publishees)
         next == [Here EXCEPT !.pc = "publish"]
     IN  \* bump_version, the working tree check, a lock or a manifest fails
         \/ step_returns("edit", publishees, <<>>, FALSE, next)
         \/ /\ r_options.dry_run
            /\ step_returns("edit", publishees, <<>>, TRUE, next)
         \/ /\ ~r_options.dry_run
            /\ \/ \E n \in 0..(Len(locks) - 1) :
                    \* manifest_lock.commit() fails at the lock after n
                    step_returns("edit", publishees, persisted(locks, n), FALSE, next)
               \/ \* refresh_cargo_lock fails, or git commit does not start
                  step_returns("edit", publishees, persisted(locks, Len(locks)), FALSE, next)
               \/ \E committed \in BOOLEAN :
                    step_returns("edit", publishees,
                                 persisted(locks, Len(locks))
                                   \o <<Effect("git_commit", publishees, committed)>>,
                                 committed, next)
               \/ \* git commit succeeded, HEAD cannot be read
                  step_returns("edit", publishees,
                               persisted(locks, Len(locks))
                                 \o <<Effect("git_commit", publishees, TRUE)>>,
                               FALSE, next)

\* one iteration of the loop of publish_crate, lines 388 to 411
publish_crate ==
  /\ r_pc = "publish"
  /\ ReleaseFrame
  /\ LET next == [Here EXCEPT !.pc = "tag"]
         run(ok) == Effect("cargo_publish", {publishee}, ok)
     IN  IF publish_skipped(r_options)
           THEN step_returns("publish", {publishee}, <<>>, TRUE, next)
           ELSE \/ \* c.status() is Err: cargo was not executed
                   step_returns("publish", {publishee}, <<>>, FALSE, next)
                \/ step_returns("publish", {publishee}, <<run(TRUE)>>, TRUE, next)
                \/ IF is_last_attempt(r_attempt)
                     THEN step_returns("publish", {publishee}, <<run(FALSE)>>, FALSE, next)
                     ELSE IF r_attempt < max_attempts
                            THEN /\ r_log' = Append(r_log, run(FALSE))
                                 /\ r_attempt' = r_attempt + 1
                                 /\ UNCHANGED <<r_phase, r_pc, r_idx, r_ret>>
                            ELSE step_returns("publish", {publishee}, <<run(FALSE)>>,
                                              TRUE, next)

\* lines 217 to 249
create_version_tag ==
  /\ r_pc = "tag"
  /\ ReleaseFrame
  /\ IF r_options.dry_run
       THEN step_returns("tag", {publishee}, <<>>, TRUE, after_tag)
       ELSE \/ step_returns("tag", {publishee}, <<Effect("tag_created", {publishee}, TRUE)>>,
                            TRUE, after_tag)
            \/ \* the transaction fails: the reference is not created
               step_returns("tag", {publishee}, <<>>, FALSE, after_tag)

NextRelease ==
  \/ edit_manifest_and_fixup_dependent_crates
  \/ publish_crate
  \/ create_version_tag

SpecRelease == InitRelease /\ [][NextRelease]_vars

\* ================================================ planning the release
\* release_depth_first up to line 168: which crates are published, which
\* of them together, and whether the run is refused.  Packages are
\* numbered in resolution order and a package's name is its number; the
\* dependencies of a package are listed in ascending order.
Packages == 1..(MaxCrates + 1)

\* the package that need not be a member of the workspace
External == MaxCrates + 1

DependencyKinds == {"normal", "dev"}

Dependency(from, to, dep_kind) == [from |-> from, to |-> to, kind |-> dep_kind]

\* the dependencies the manifests of the packages can declare
Declarable(packages, kinds) ==
  {d \in [from : packages, to : packages, kind : kinds] : d.from # d.to}

\* package.dependencies, as the sequence of the packages depended on
dependencies(m, package) ==
  InResolutionOrder({d.to : d \in {e \in m.dependencies : e.from = package}})

\* package.dependencies.iter().filter(|d| d.kind == DependencyKind::Normal)
normal_dependencies(m, package) ==
  InResolutionOrder({d.to : d \in {e \in m.dependencies :
                                     e.from = package /\ e.kind = "normal"}})

\* publishee.dependencies.iter().filter(|dep| dep.kind != Normal ..)
other_dependencies(m, package) ==
  InResolutionOrder({d.to : d \in {e \in m.dependencies :
                                     e.from = package /\ e.kind # "normal"}})

is_workspace_member(m, crate_name) == crate_name \in m.workspace_members

\* workspace_package_by_id(meta, id) is Some
expand_every_package(m, id) == TRUE

workspace_package_by_id(m, id) == id \in m.packages /\ id \in m.workspace_members

\* package.dependencies.iter().any(|dep| package_eq_dependency(destination, dep))
package_eq_dependency(m, package, destination) ==
  destination \in Range(dependencies(m, package))

\* lines 310 to 312: the search before the first iteration
hops_start(source, destination) ==
  [source |-> source, destination |-> destination,
   package_ids |-> <<<<0, source>>>>, seen |-> {}, result |-> "running",
   hops |-> 0, expanded |-> <<>>]

\* one iteration of the loop of lines 313 to 332, or its end at line 333
hops_iteration(m, h) ==
  IF h.package_ids = <<>>
    THEN [h EXCEPT !.result = "None"]
    ELSE LET top == h.package_ids[Len(h.package_ids)]
             level == top[1]
             id == top[2]
             popped == [h EXCEPT !.package_ids = SubSeq(@, 1, Len(@) - 1)]
             deps == dependencies(m, id)
         IN  IF id \in h.seen
               THEN popped
               ELSE IF workspace_package_by_id(m, id)
                      THEN IF package_eq_dependency(m, id, h.destination)
                             THEN [popped EXCEPT !.seen = @ \cup {id},
                                                 !.expanded = Append(@, id),
                                                 !.result = "Some",
                                                 !.hops = level + 1]
                             ELSE [popped EXCEPT
                                     !.seen = @ \cup {id},
                                     !.expanded = Append(@, id),
                                     !.package_ids =
                                        @ \o [k \in 1..Len(deps) |->
                                                <<level + 1, deps[k]>>]]
                      ELSE [popped EXCEPT !.seen = @ \cup {id}]

RECURSIVE hops_loop(_, _)
hops_loop(m, h) ==
  IF h.result # "running" THEN h ELSE hops_loop(m, hops_iteration(m, h))

hops_for_dependency_to_link_back_to_publishee(m, source, destination) ==
  hops_loop(m, hops_start(source, destination))

\* the `from` of the cycles of a publishee, in order
workspace_members_referring_to_publishee(m, publishee_name) ==
  SelectSeq(other_dependencies(m, publishee_name),
            LAMBDA dep :
              /\ is_workspace_member(m, dep)
              /\ hops_for_dependency_to_link_back_to_publishee(
                   m, dep, publishee_name).result = "Some")

reorder_according_to_resolution_order(m, workspace_members) ==
  InResolutionOrder({c \in m.workspace_members : c \in Range(workspace_members)})

\* the loop over the dependencies of a package, lines 107 to 122;
\* changed: the crates has_changed_since_last_release is true of
RECURSIVE visit_dependencies(_, _, _, _, _)
visit_dependencies(m, changed, deps, k, st) ==
  IF k > Len(deps)
    THEN st
    ELSE IF deps[k] \in st.seen \/ ~is_workspace_member(m, deps[k])
           THEN visit_dependencies(m, changed, deps, k + 1, st)
           ELSE visit_dependencies(
                  m, changed, deps, k + 1,
                  [st EXCEPT !.seen = @ \cup {deps[k]},
                             !.changed_crate_names_to_publish =
                                IF deps[k] \in changed
                                  THEN Append(@, deps[k]) ELSE @])

\* the loop over changed_crate_names_to_publish, lines 105 to 124
RECURSIVE visit_changed(_, _, _)
visit_changed(m, changed, st) ==
  IF st.index >= Len(st.changed_crate_names_to_publish)
    THEN st
    ELSE LET crate_name == st.changed_crate_names_to_publish[st.index + 1]
             visited == visit_dependencies(
                          m, changed, normal_dependencies(m, crate_name), 1, st)
         IN  visit_changed(m, changed, [visited EXCEPT !.index = @ + 1])

\* the loop over crate_names, lines 100 to 126
RECURSIVE visit_crate_names(_, _, _, _, _)
visit_crate_names(m, changed, crate_names, k, st) ==
  IF k > Len(crate_names)
    THEN st
    ELSE IF crate_names[k] \in st.seen
           THEN visit_crate_names(m, changed, crate_names, k + 1, st)
           ELSE LET pushed == [st EXCEPT !.changed_crate_names_to_publish =
                                           Append(@, crate_names[k])]
                    visited == visit_changed(m, changed, pushed)
                IN  visit_crate_names(
                      m, changed, crate_names, k + 1,
                      [visited EXCEPT !.seen = @ \cup {crate_names[k]}])

\* lines 98 to 127
changed_crate_names_to_publish(m, changed, crate_names) ==
  reorder_according_to_resolution_order(
    m,
    visit_crate_names(m, changed, crate_names, 1,
                      [seen |-> {}, changed_crate_names_to_publish |-> <<>>,
                       index |-> 0]).changed_crate_names_to_publish)

\* lines 152 to 156: from and the publishee join the publish group
push_to_group(publish_group, names) ==
  LET with_first == IF names[1] \in Range(publish_group)
                      THEN publish_group ELSE Append(publish_group, names[1])
  IN  IF names[2] \in Range(with_first)
        THEN with_first ELSE Append(with_first, names[2])

\* the loop over the cycles of a publishee, lines 138 to 158
RECURSIVE visit_cycles(_, _, _, _, _)
visit_cycles(to_publish, publishee_name, cycles, k, st) ==
  IF k > Len(cycles)
    THEN st
    ELSE IF cycles[k] \notin Range(to_publish)
           THEN visit_cycles(
                  to_publish, publishee_name, cycles, k + 1,
                  [st EXCEPT
                     !.crates_to_publish_additionally_to_avoid_instability =
                        Append(@, cycles[k])])
           ELSE visit_cycles(
                  to_publish, publishee_name, cycles, k + 1,
                  [st EXCEPT !.publish_group =
                               push_to_group(@, <<cycles[k], publishee_name>>)])

\* the loop over the publishees, lines 132 to 160
RECURSIVE visit_publishees(_, _, _, _)
visit_publishees(m, to_publish, k, st) ==
  IF k > Len(to_publish)
    THEN st
    ELSE visit_publishees(
           m, to_publish, k + 1,
           visit_cycles(to_publish, to_publish[k],
                        workspace_members_referring_to_publishee(m, to_publish[k]),
                        1, st))

\* line 161: the run is refused
refused_when_ignoring(additionally, ignore_instability) ==
  additionally # <<>> /\ ignore_instability

refused(additionally, ignore_instability) ==
  additionally # <<>> /\ ~ignore_instability

\* lines 170 to 172: the crates that are released one by one
one_by_one_unfiltered(to_publish, crates_to_publish_together) == to_publish

one_by_one(to_publish, crates_to_publish_together) ==
  SelectSeq(to_publish, LAMBDA n : n \notin Range(crates_to_publish_together))

\* the packages a package reaches over normal dependencies
RECURSIVE NormalClosure(_, _, _)
NormalClosure(deps, set, fuel) ==
  IF fuel = 0
    THEN set
    ELSE NormalClosure(
           deps,
           set \cup {d.to : d \in {e \in deps : e.from \in set /\ e.kind = "normal"}},
           fuel - 1)

\* cargo refuses a package that depends on itself over normal dependencies
NormalAcyclic(deps) ==
  \A d \in deps :
    d.kind = "normal" => d.from \notin NormalClosure(deps, {d.to}, MaxCrates)

\* the metadata of a workspace of the crates: at most MaxDeps
\* dependencies, of either kind, none of a crate on itself
PlanMetas ==
  {[packages |-> Crates, workspace_members |-> Crates, dependencies |-> deps] :
     deps \in {d \in SUBSET Declarable(Crates, DependencyKinds) :
                 Cardinality(d) <= MaxDeps /\ NormalAcyclic(d)}}

\* the crate names the user passes: one to MaxCrates names, with repeats
CrateNames == UNION {[1..n -> Crates] : n \in 1..MaxCrates}

InitPlan ==
  /\ num_objects = 0 /\ items = <<>> /\ head = 0 /\ cap = 0
  /\ roots = 0 /\ last_index = 0 /\ future_child_offsets = <<>>
  /\ call = NoCall /\ result = Ok /\ inserted = <<>> /\ queued = <<>>
  /\ WriterIdle
  /\ ReleaseIdle
  /\ meta \in PlanMetas
  /\ \E crate_names \in CrateNames, changed \in SUBSET Crates,
        ignore_instability \in BOOLEAN :
       plan = [NoPlan EXCEPT !.crate_names = crate_names,
                             !.changed = changed,
                             !.ignore_instability = ignore_instability,
                             !.pc = "start"]
  /\ hops = NoHops

\* release_depth_first, lines 95 to 168: the run is refused, or the two
\* loops from line 170 on have their crates
release_depth_first ==
  /\ plan.pc = "start"
  /\ UNCHANGED <<tvars, wvars, meta, hops, r_options, r_log>>
  /\ LET to_publish == changed_crate_names_to_publish(
                         meta, plan.changed, plan.crate_names)
         cycles == visit_publishees(
                     meta, to_publish, 1,
                     [crates_to_publish_additionally_to_avoid_instability |-> <<>>,
                      publish_group |-> <<>>])
         additionally == cycles.crates_to_publish_additionally_to_avoid_instability
         crates_to_publish_together ==
           reorder_according_to_resolution_order(meta, cycles.publish_group)
         singles == one_by_one(to_publish, crates_to_publish_together)
     IN  IF refused(additionally, plan.ignore_instability)
           THEN /\ plan' = [plan EXCEPT
                              !.pc = "refused",
                              !.changed_crate_names_to_publish = to_publish,
                              !.crates_to_publish_additionally_to_avoid_instability =
                                 additionally]
                /\ r_pc' = "failed"
                /\ r_ret' = "Err"
                /\ UNCHANGED <<r_deps, r_singles, r_group, r_phase, r_idx, r_attempt>>
           ELSE /\ plan' = [plan EXCEPT
                              !.pc = "planned",
                              !.changed_crate_names_to_publish = to_publish,
                              !.crates_to_publish_additionally_to_avoid_instability =
                                 additionally]
                /\ r_deps' = {<<d.from, d.to>> : d \in meta.dependencies}
                /\ r_singles' = singles
                /\ r_group' = crates_to_publish_together
                /\ r_phase' = IF singles # <<>> THEN "single" ELSE "together"
                /\ r_pc' = "edit"
                /\ r_idx' = 1
                /\ r_attempt' = 1
                /\ r_ret' = "none"

NextPlan == release_depth_first

SpecPlan == InitPlan /\ [][NextPlan]_vars

\* ------------------------------------------------- the search, stepwise
\* the metadata of the search: the crates and one more package, which is
\* a workspace member or not, at most MaxDeps dependencies; the search
\* reads no kind
HopsMetas ==
  {[packages |-> Packages, workspace_members |-> members, dependencies |-> deps] :
     members \in {Crates, Packages},
     deps \in {d \in SUBSET Declarable(Packages, {"dev"}) :
                 Cardinality(d) <= MaxDeps}}

InitHops ==
  /\ num_objects = 0 /\ items = <<>> /\ head = 0 /\ cap = 0
  /\ roots = 0 /\ last_index = 0 /\ future_child_offsets = <<>>
  /\ call = NoCall /\ result = Ok /\ inserted = <<>> /\ queued = <<>>
  /\ WriterIdle
  /\ ReleaseIdle
  /\ meta \in HopsMetas
  /\ plan = NoPlan
  /\ \E source \in meta.workspace_members, destination \in meta.workspace_members :
       /\ source # destination
       /\ hops = hops_start(source, destination)

\* while let Some((level, id)) = package_ids.pop()
hops_step ==
  /\ hops.result = "running"
  /\ hops' = hops_iteration(meta, hops)
  /\ UNCHANGED <<tvars, wvars, rvars, meta, plan>>

NextHops == hops_step

SpecHops == InitHops /\ [][NextHops]_vars

\* the loop runs on until it returns
SpecHopsFair == SpecHops /\ WF_vars(NextHops)

\* ------------------------------------------------- reading the store
\* the number of roots among the insertions k..Len(inserted), and of
\* children among the insertions 1..k
RootsFrom(k) == Cardinality({j \in k..Len(inserted) : inserted[j].root})
ChildrenUpTo(k) == Cardinality({j \in 1..k : ~inserted[j].root})

\* where the k-th inserted item is in the store: roots are prepended, so
\* the later a root the nearer the front; children follow in order
PosOf(k) == IF inserted[k].root THEN RootsFrom(k) ELSE roots + ChildrenUpTo(k)

NumChildren == Len(items) - roots

\* the item a child index names: position index of the children region
ChildItem(index) == items[roots + index + 1]

HasOffset(its, offset) == \E i \in 1..Len(its) : its[i].offset = offset

SealedOk == call.op = "seal" /\ result.kind = "Ok"

\* ---------------------------------------------------------------- C1
\* C1: an add_root or add_child call fails with the increasing-offset
\* error exactly when the tree is non-empty and the offered offset is <=
\* the offset of the most recently inserted item (root or child); the
\* error carries that offset as last_pack_offset and the offered one as
\* pack_offset.  The first insertion never fails this check.
C1_IncreasingOffsetError ==
  [][call'.op \in {"add_root", "add_child"} =>
       LET n == Len(inserted)
           violates == n > 0 /\ call'.offset <= inserted[n].offset
       IN  /\ (result'.kind = "InvariantIncreasingPackOffset") <=> violates
           /\ violates => /\ result'.last_pack_offset = inserted[n].offset
                          /\ result'.pack_offset = call'.offset]_vars

C1_Witness ==
  /\ result.kind = "InvariantIncreasingPackOffset"
  /\ result.last_pack_offset = result.pack_offset
  /\ call.op = "add_root"
  /\ Len(inserted) >= 2
  /\ ~inserted[Len(inserted)].root

\* ---------------------------------------------------------------- C2
\* C2: in every reachable state the offsets of the stored items, read in
\* insertion order, are strictly increasing, so no two items share one.
C2_StrictlyIncreasingOffsets ==
  /\ Len(items) = Len(inserted)
  /\ \A j, k \in 1..Len(inserted) :
       j < k => items[PosOf(j)].offset < items[PosOf(k)].offset
  /\ \A i, j \in 1..Len(items) : i # j => items[i].offset # items[j].offset

C2_Witness ==
  /\ Len(items) >= 3
  /\ result.kind = "InvariantIncreasingPackOffset"
  /\ roots >= 1
  /\ NumChildren >= 1

\* ---------------------------------------------------------------- C3
\* C3: after a successful seal of a non-empty tree the last inserted item
\* has next_offset = pack_entries_end and every other item has the offset
\* of the item inserted right after it as next_offset.
C3_NextOffsets ==
  (SealedOk /\ items # <<>>) =>
    LET n == Len(inserted)
    IN  /\ items[PosOf(n)].next_offset = call.pack_entries_end
        /\ \A k \in 1..(n - 1) :
             items[PosOf(k)].next_offset = items[PosOf(k + 1)].offset

C3_Witness ==
  /\ SealedOk
  /\ Len(inserted) >= 3
  /\ inserted[1].root /\ ~inserted[2].root /\ inserted[3].root
  /\ call.pack_entries_end = MaxOffset + 1

\* ---------------------------------------------------------------- C4
\* C4: after a successful seal every item, the last one included, has
\* next_offset > offset.
C4_NextOffsetAfterOffset ==
  SealedOk => \A i \in 1..Len(items) : items[i].next_offset > items[i].offset

\* ---------------------------------------------------------------- C5
\* C5: after a successful seal every pair (base_offset, child_index) that
\* was queued during the build is resolved: the item at base_offset has
\* child_index among its children, and nothing is pending any more.
C5_PendingResolved ==
  SealedOk =>
    /\ future_child_offsets = <<>>
    /\ \A q \in Range(queued) :
         \E i \in 1..Len(items) :
           /\ items[i].offset = q[1]
           /\ q[2] \in Range(items[i].children)

C5_Witness ==
  /\ SealedOk
  /\ roots >= 2
  /\ \E q \in Range(queued) : \E i \in 1..roots :
       /\ items[i].offset = q[1]
       /\ items[i].offset > ChildItem(q[2]).offset

\* ---------------------------------------------------------------- C6
\* C6: seal returns the dangling-base error if and only if some pending
\* entry names a base offset that no item has, and the error carries the
\* base offset of the first such entry; for every build sequence.
Dangling ==
  {k \in 1..Len(future_child_offsets) :
     ~HasOffset(items, future_child_offsets[k][1])}

C6_DanglingBaseError ==
  [][call'.op = "seal" =>
       /\ (result'.kind = "OutOfPackRefDelta") <=> (Dangling # {})
       /\ Dangling # {} =>
            \E k \in Dangling :
              /\ \A j \in Dangling : k <= j
              /\ result'.base_pack_offset = future_child_offsets[k][1]]_vars

\* ---------------------------------------------------------------- C7
\* C7: a successful add_child appends the new child's index to the
\* children of exactly the item at base_offset when there is one, leaving
\* the pending list alone; otherwise it changes no children list and
\* appends exactly (base_offset, new child index) to the pending list.
C7_LinkImmediately ==
  [][(call'.op = "add_child" /\ result'.kind = "Ok") =>
       LET base == call'.base_offset
           index == NumChildren
       IN  /\ Len(items') = Len(items) + 1
           /\ items'[Len(items')].children = <<>>
           /\ \A i \in 1..Len(items) :
                items'[i].children =
                  IF items[i].offset = base
                    THEN Append(items[i].children, index)
                    ELSE items[i].children
           /\ future_child_offsets' =
                IF HasOffset(items, base)
                  THEN future_child_offsets
                  ELSE Append(future_child_offsets, <<base, index>>)]_vars

C7_Witness ==
  /\ call.op = "add_child"
  /\ result.kind = "Ok"
  /\ roots >= 2
  /\ items[Len(items)].offset > call.base_offset
  /\ items[roots].offset = call.base_offset
  /\ items[roots].children # <<>>

\* ---------------------------------------------------------------- C8
\* C8: after a successful seal every item inserted with add_child is named
\* by exactly one entry of all the children lists together, and every
\* entry of a children list names an item inserted with add_child, never
\* an item inserted with add_root.
References(index) ==
  {<<i, j>> \in (1..Len(items)) \X (1..Len(items)) :
     j <= Len(items[i].children) /\ items[i].children[j] = index}

C8_Forest ==
  SealedOk =>
    /\ \A index \in 0..(NumChildren - 1) : Cardinality(References(index)) = 1
    /\ \A i \in 1..Len(items) : \A index \in Range(items[i].children) :
         /\ index \in 0..(NumChildren - 1)
         /\ ~inserted[CHOOSE k \in 1..Len(inserted) :
                        PosOf(k) = roots + index + 1].root

C8_Witness ==
  /\ SealedOk
  /\ roots >= 1
  /\ NumChildren >= 2
  /\ Len(queued) >= 1
  /\ Len(queued) < NumChildren

\* ---------------------------------------------------------------- C9
\* C9: in a successfully sealed tree a parent has a strictly smaller
\* offset than each of its children, so no item is its own ancestor.
ChildPositions(i) == {roots + index + 1 : index \in Range(items[i].children)}

RECURSIVE Descendants(_, _)
Descendants(from, fuel) ==
  IF fuel = 0 THEN from
  ELSE Descendants(from \cup UNION {ChildPositions(i) : i \in from}, fuel - 1)

C9_NoCycles ==
  SealedOk =>
    /\ \A i \in 1..Len(items) : \A c \in ChildPositions(i) :
         items[i].offset < items[c].offset
    /\ \A i \in 1..Len(items) :
         i \notin Descendants(ChildPositions(i), Len(items))

\* --------------------------------------------------------------- C10
\* C10 as stated: in every reachable state the roots region and the
\* children region, each read in store order, are sorted by ascending
\* offset.
Ascending(seq) ==
  \A i, j \in 1..Len(seq) : i < j => seq[i].offset <= seq[j].offset

Descending(seq) ==
  \A i, j \in 1..Len(seq) : i < j => seq[i].offset >= seq[j].offset

RootsRegion == SubSeq(items, 1, roots)
ChildrenRegion == SubSeq(items, roots + 1, Len(items))

C10_RegionsAscending == Ascending(RootsRegion) /\ Ascending(ChildrenRegion)

\* C10 amended: in every reachable state the roots region, read in store
\* order, is sorted by descending offset (the newest root is at the
\* front), and the children region is sorted by ascending offset.
C10_RootsDescendingChildrenAscending ==
  Descending(RootsRegion) /\ Ascending(ChildrenRegion)

C10_Witness ==
  /\ roots >= 2
  /\ NumChildren >= 1
  /\ inserted[1].root
  /\ ~inserted[2].root
  /\ inserted[3].root

\* --------------------------------------------------------------- C11
\* C11: an add_root or add_child call that would make the number of stored
\* items exceed the capacity given to with_capacity does not succeed: it
\* never returns Ok and never grows the store.
C11_CapacityExceeded ==
  [][(call'.op \in {"add_root", "add_child"} /\ Len(items) + 1 > num_objects) =>
       (result'.kind # "Ok" /\ Len(items') = Len(items))]_vars

\* --------------------------------------------------------------- C12
\* C12: when seal failed with the dangling-base error, calling it again on
\* the same tree with the same argument fails again with the same error
\* and the same base offset.
C12_IdempotentFailure ==
  [][(call.op = "seal" /\ result.kind = "OutOfPackRefDelta" /\ call'.op = "seal"
        /\ call'.pack_entries_end = call.pack_entries_end) =>
       result' = result]_vars

\* --------------------------------------------------------------- C13
\* C13: in a successfully sealed tree every item, root or child, is
\* reachable through the children lists from exactly one root.
Reachable(r) == Descendants({r}, Len(items))

RootsReaching(i) == {r \in 1..roots : i \in Reachable(r)}

C13_ChunkPartition ==
  SealedOk => \A i \in 1..Len(items) : Cardinality(RootsReaching(i)) = 1

\* --------------------------------------------------------------- C14
\* C14: in a successfully sealed tree the sets of items reachable through
\* the children lists from two different roots are disjoint, so workers
\* that each touch only what their own roots reach never share an item.
C14_ChunksIndependent ==
  SealedOk =>
    \A r1, r2 \in 1..roots :
      r1 # r2 => Reachable(r1) \cap Reachable(r2) = {}

C14_Witness ==
  /\ SealedOk
  /\ roots >= 2
  /\ \E r \in 1..roots : Cardinality(Reachable(r)) >= 2

\* ------------------------------------------- reading the index bytes
RECURSIVE be_value(_)
be_value(bytes) ==
  IF bytes = <<>> THEN 0
  ELSE be_value(SubSeq(bytes, 1, Len(bytes) - 1)) * ByteMod + bytes[Len(bytes)]

\* the bytes at the 0-based position pos, n of them, and their value
BytesAt(bytes, pos, n) == SubSeq(bytes, pos + 1, pos + n)
U32At(bytes, pos) == be_value(BytesAt(bytes, pos, 4))
U64At(bytes, pos) == be_value(BytesAt(bytes, pos, 8))

NumEntries == Len(entries_sorted_by_oid)
FanOutStart == Len(V2_SIGNATURE) + 4
IdsStart(n) == FanOutStart + 4 * ByteMod
Crc32Start(n) == IdsStart(n) + n * HashLen
OffsetsStart(n) == Crc32Start(n) + 4 * n
OverflowStart(n) == OffsetsStart(n) + 4 * n

IsLarge(k) == entries_sorted_by_oid[k].offset > LARGE_OFFSET_THRESHOLD
LargeEntries == {k \in 1..NumEntries : IsLarge(k)}
LargeBefore(k) == Cardinality({j \in LargeEntries : j < k})

RECURSIVE LargeOffsetBytes(_)
\* the 64-bit offsets of the large entries from k on, in id order
LargeOffsetBytes(k) ==
  IF k > NumEntries THEN <<>>
  ELSE (IF IsLarge(k) THEN be_bytes(entries_sorted_by_oid[k].offset, 8) ELSE <<>>)
         \o LargeOffsetBytes(k + 1)

Written == w_pc = "done"

\* --------------------------------------------------------------- C15
\* C15: entry i of the fan-out table that was written is the number of
\* entries whose id has a first byte <= i.
C15_FanOut ==
  (NumEntries > 0 /\ Len(out.inner) >= IdsStart(NumEntries)) =>
    \A i \in Byte :
      U32At(out.inner, FanOutStart + 4 * i) =
        Cardinality({k \in 1..NumEntries : entries_sorted_by_oid[k].id[1] <= i})

\* --------------------------------------------------------------- C16
\* C16: the offset table has one u32 per entry in id order: the offset
\* itself when it is <= the large offset threshold, otherwise the position
\* of the entry's offset in the overflow section with the high bit set.
C16_OffsetTable ==
  Written =>
    \A k \in 1..NumEntries :
      U32At(out.inner, OffsetsStart(NumEntries) + 4 * (k - 1)) =
        IF IsLarge(k) THEN or_high_bit(LargeBefore(k))
                      ELSE entries_sorted_by_oid[k].offset

\* --------------------------------------------------------------- C17
\* C17: the index has an overflow section if and only if some entry, at
\* any position, has an offset above the threshold, and the section then
\* holds the 64-bit offset of each such entry, big-endian.
C17_OverflowSection ==
  Written =>
    BytesAt(out.inner, OverflowStart(NumEntries),
            Len(out.inner) - 2 * HashLen - OverflowStart(NumEntries))
      = LargeOffsetBytes(1)

\* --------------------------------------------------------------- C18
\* C18: decoding the bytes of a written index gives back the entries, in
\* order.  The decoder reads the v2 layout: the number of entries is the
\* last fan-out entry, an offset with the high bit set is an index into
\* the overflow section.
DecodedCount(bytes) == U32At(bytes, FanOutStart + 4 * (ByteMod - 1))

DecodedOffset(bytes, n, k) ==
  LET v == U32At(bytes, OffsetsStart(n) + 4 * (k - 1))
  IN  IF and_high_bit(v) = HIGH_BIT
        THEN LET pos == OverflowStart(n) + 8 * (v - HIGH_BIT)
             IN  IF pos + 8 + 2 * HashLen <= Len(bytes) THEN U64At(bytes, pos) ELSE -1
        ELSE v

Decode(bytes) ==
  LET n == DecodedCount(bytes)
  IN  IF BytesAt(bytes, 0, 4) # V2_SIGNATURE \/ U32At(bytes, 4) # V2
           \/ OverflowStart(n) + 2 * HashLen > Len(bytes)
        THEN <<>>
        ELSE [k \in 1..n |->
                [offset |-> DecodedOffset(bytes, n, k),
                 id |-> BytesAt(bytes, IdsStart(n) + (k - 1) * HashLen, HashLen),
                 crc32 |-> U32At(bytes, Crc32Start(n) + 4 * (k - 1))]]

C18_RoundTrip == Written => Decode(out.inner) = entries_sorted_by_oid

\* --------------------------------------------------------------- C19
\* C19: a written index ends with the pack hash followed by the index
\* hash, the index hash is the hash of every byte before it, and to_write
\* returns that index hash.
C19_Trailer ==
  Written =>
    LET len == Len(out.inner)
    IN  /\ BytesAt(out.inner, len - 2 * HashLen, HashLen) = pack_hash
        /\ BytesAt(out.inner, len - HashLen, HashLen)
             = digest(SubSeq(out.inner, 1, len - HashLen))
        /\ ret.kind = "Ok"
        /\ ret.index_hash = BytesAt(out.inner, len - HashLen, HashLen)

C19_Witness ==
  /\ Written
  /\ NumEntries >= 2
  /\ \E k \in 1..Len(wlog) : wlog[k].section = "offsets64" /\ wlog[k].bytes # <<>>

\* --------------------------------------------------------------- C20
\* C20: the sections reach the sink in the order header, fan-out table,
\* ids, crc32 values, offset table, overflow section, pack hash, index
\* hash; the ids and the crc32 values in the order of the entries; no
\* section starts before the earlier ones are complete; and after a write
\* error nothing more is written and the error is returned.
SectionRank(section) ==
  CASE section = "header" -> 1
    [] section = "fan_out" -> 2
    [] section = "ids" -> 3
    [] section = "crc32" -> 4
    [] section = "offsets" -> 5
    [] section = "offsets64" -> 6
    [] section = "pack_hash" -> 7
    [] section = "index_hash" -> 8

RECURSIVE SectionBytes(_, _)
\* the bytes the first k writes gave to the sink for a section
SectionBytes(section, k) ==
  IF k = 0 THEN <<>>
  ELSE SectionBytes(section, k - 1)
         \o (IF wlog[k].section = section THEN wlog[k].bytes ELSE <<>>)

RECURSIVE IdBytes(_)
IdBytes(k) ==
  IF k = 0 THEN <<>> ELSE IdBytes(k - 1) \o entries_sorted_by_oid[k].id

RECURSIVE Crc32Bytes(_)
Crc32Bytes(k) ==
  IF k = 0 THEN <<>> ELSE Crc32Bytes(k - 1) \o be_bytes(entries_sorted_by_oid[k].crc32, 4)

\* what a complete section holds, where the layout fixes it
CompleteBefore(section, k) ==
  CASE section = "header" ->
         SectionBytes(section, k) = V2_SIGNATURE \o be_bytes(V2, 4)
    [] section = "fan_out" -> Len(SectionBytes(section, k)) = 4 * ByteMod
    [] section = "ids" -> SectionBytes(section, k) = IdBytes(NumEntries)
    [] section = "crc32" -> SectionBytes(section, k) = Crc32Bytes(NumEntries)
    [] section = "offsets" -> Len(SectionBytes(section, k)) = 4 * NumEntries
    [] section = "offsets64" -> TRUE
    [] section = "pack_hash" -> SectionBytes(section, k) = pack_hash
    [] section = "index_hash" -> TRUE

Sections == {"header", "fan_out", "ids", "crc32", "offsets", "offsets64",
             "pack_hash", "index_hash"}

IsPrefix(a, b) == Len(a) <= Len(b) /\ a = SubSeq(b, 1, Len(a))

\* wlog only grows, one write per step, so stating the order and the
\* completeness for the last write states them for every write.
C20_SectionOrder ==
  LET n == Len(wlog)
  IN  /\ out.inner = Flatten([k \in 1..n |-> wlog[k].bytes])
      /\ \A j \in 1..(n - 1) :
           /\ SectionRank(wlog[j].section) <= SectionRank(wlog[n].section)
           /\ wlog[j].ok
      /\ n > 0 =>
           \A section \in Sections :
             SectionRank(section) < SectionRank(wlog[n].section) =>
               CompleteBefore(section, n - 1)
      /\ IsPrefix(SectionBytes("ids", n), IdBytes(NumEntries))
      /\ IsPrefix(SectionBytes("crc32", n), Crc32Bytes(NumEntries))
      /\ (n > 0 /\ ~wlog[n].ok) => (w_pc = "failed" /\ ret.kind = "Err")
      /\ Written => \A section \in Sections : CompleteBefore(section, n)

C20_Witness ==
  /\ w_pc = "failed"
  /\ ret.kind = "Err"
  /\ NumEntries >= 2
  /\ wlog[Len(wlog)].section = "offsets64"
  /\ wlog[Len(wlog)].bytes # <<>>

\* --------------------------------------------------------------- C21
\* C21: to_write called with no entry never returns Ok and hands no byte
\* to the sink.
C21_EmptyRejected ==
  (w_pc # "idle" /\ entries_sorted_by_oid = <<>>) =>
    /\ ret.kind # "Ok"
    /\ out.inner = <<>>
    /\ wlog = <<>>

C21_Witness ==
  /\ entries_sorted_by_oid = <<>>
  /\ kind = V2
  /\ w_pc = "panicked"
  /\ ret.kind = "Panic"

\* --------------------------------------------------------------- C23
\* the insertion that put the item at a position of the store
InsertionAt(pos) == CHOOSE k \in 1..Len(inserted) : PosOf(k) = pos

InsertedAsChildOf(pos, parent) ==
  /\ pos \in 1..Len(items)
  /\ ~inserted[InsertionAt(pos)].root
  /\ inserted[InsertionAt(pos)].base_offset = items[parent].offset

C24_CutPoint ==
  /\ roots = RootsFrom(1)
  /\ Len(items) = Len(inserted)
  /\ \A k \in 1..Len(inserted) :
       /\ items[PosOf(k)].offset = inserted[k].offset
       /\ inserted[k].root <=> PosOf(k) <= roots
  /\ \A j, k \in 1..Len(inserted) :
       (j < k /\ ~inserted[j].root /\ ~inserted[k].root) => PosOf(j) < PosOf(k)

C24_Witness ==
  /\ result.kind = "InvariantIncreasingPackOffset"
  /\ call.op = "add_child"
  /\ roots = 2
  /\ NumChildren = 1
  /\ ~inserted[1].root

\* --------------------------------------------------------------- C25
\* C25: in every reachable state of a non-empty tree items[last_index] is
\* the item of the latest successful insertion, whatever the order of
\* add_root and add_child calls.
C25_LastIndex ==
  items # <<>> =>
    /\ Len(inserted) = Len(items)
    /\ last_index + 1 = PosOf(Len(inserted))
    /\ items[last_index + 1].offset = inserted[Len(inserted)].offset

C25_Witness ==
  /\ Len(inserted) >= 3
  /\ ~inserted[1].root /\ inserted[2].root /\ ~inserted[3].root
  /\ last_index = 2

\* --------------------------------------------------------------- C26
\* C26: an add_root or add_child call that fails with the
\* increasing-offset error leaves the tree as it was: the items with their
\* children and next_offset, roots, last_index and the pending list.
C26_FailedAddChangesNothing ==
  [][(call'.op \in {"add_root", "add_child"}
        /\ result'.kind = "InvariantIncreasingPackOffset") =>
       /\ items' = items
       /\ roots' = roots
       /\ last_index' = last_index
       /\ future_child_offsets' = future_child_offsets]_vars

C26_Witness ==
  /\ result.kind = "InvariantIncreasingPackOffset"
  /\ call.op = "add_child"
  /\ Len(items) >= 2
  /\ items[last_index + 1].next_offset = 0
  /\ future_child_offsets # <<>>

\* --------------------------------------------------------------- C27
\* C27: while the number of inserted items does not exceed the declared
\* capacity, the assertion of add_child and of seal that the front slice
\* has exactly `roots` elements holds, for every order of calls.
C27_ConsistencyAssertion ==
  result.kind = "Panic" =>
    Len(items) + (IF call.op = "add_child" THEN 1 ELSE 0) > num_objects

\* --------------------------------------------------------------- C28
\* C28: for every non-empty id-sorted input, whenever a 64-bit offset was
\* collected the 32-bit column has one slot per entry, so the assertion of
\* line 70 holds.
C28_OffsetColumnAssertion ==
  (\E k \in 1..Len(wlog) : wlog[k].section = "fan_out") =>
    /\ w_pc # "panicked"
    /\ Len(tables(entries_sorted_by_oid).offsets64_be) > 0 =>
         Len(tables(entries_sorted_by_oid).offsets_be) = NumEntries

\* ------------------------------------------- reading the release log
\* the positions of the log with an entry of that kind for the crate
LogOf(what, crate) ==
  {k \in 1..Len(r_log) : r_log[k].what = what /\ crate \in r_log[k].crates}

Effects == {"manifest", "git_commit", "cargo_publish", "tag_created"}
Returns == {"edit", "publish", "tag"}

Released == Range(r_singles) \cup Range(r_group)

\* --------------------------------------------------------------- C22
\* C22: cargo publish runs at most three times for a crate; a run after
\* the first is made only when every earlier run of the crate exited
\* unsuccessfully; publish_crate returns Ok as soon as a run succeeds and
\* returns an error when the third run fails.
C22_PublishRetries ==
  \A crate \in Crates :
    LET runs == LogOf("cargo_publish", crate)
        returned == LogOf("publish", crate)
    IN  /\ Cardinality(runs) <= 3
        /\ \A j, k \in runs : j < k => ~r_log[j].ok
        /\ \A k \in runs : r_log[k].ok =>
             /\ k + 1 \in returned
             /\ r_log[k + 1].ok
        /\ (Cardinality(runs) = 3 /\ \A k \in runs : ~r_log[k].ok) =>
             \E k \in returned : ~r_log[k].ok /\ r_ret = "Err"
        /\ Cardinality(returned) <= 1
        /\ \A k \in returned : \A j \in runs : j < k

C22_Witness ==
  /\ r_ret = "Err"
  /\ \E crate \in Crates :
       /\ Cardinality(LogOf("cargo_publish", crate)) = 3
       /\ \A k \in LogOf("cargo_publish", crate) : ~r_log[k].ok
  /\ \E crate \in Crates :
       \E k \in LogOf("cargo_publish", crate) : r_log[k].ok

\* --------------------------------------------------------------- C29
\* C29: the tag of a crate is created only after the manifest edit with
\* its commit and the publish step of that crate returned successfully;
\* when a step fails no tag is created for its crate and nothing is
\* published or tagged afterwards.
C29_TagAfterEditAndPublish ==
  /\ \A crate \in Crates : \A k \in LogOf("tag_created", crate) :
       \E i \in LogOf("edit", crate), j \in LogOf("publish", crate) :
         /\ i < j /\ j < k
         /\ r_log[i].ok /\ r_log[j].ok
  /\ \A k \in 1..Len(r_log) :
       (r_log[k].what \in Returns /\ ~r_log[k].ok) =>
         /\ k = Len(r_log)
         /\ r_ret = "Err"
         /\ \A crate \in r_log[k].crates : LogOf("tag_created", crate) = {}

C29_Witness ==
  /\ r_ret = "Err"
  /\ r_log[Len(r_log)].what = "publish"
  /\ \E crate \in Crates : LogOf("tag_created", crate) # {}
  /\ Len(r_group) >= 2

\* --------------------------------------------------------------- C30
\* C30: with dry_run no cargo publish is executed, no manifest is
\* persisted, no git commit is executed and no tag is created; with
\* skip_publish and without dry_run only cargo publish is left out.
C30_DryRun ==
  /\ r_options.dry_run =>
       \A k \in 1..Len(r_log) : r_log[k].what \notin Effects
  /\ (r_options.skip_publish /\ ~r_options.dry_run) =>
       /\ \A k \in 1..Len(r_log) : r_log[k].what # "cargo_publish"
       /\ r_pc = "done" =>
            \A crate \in Released :
              /\ LogOf("manifest", crate) # {}
              /\ \E k \in LogOf("git_commit", crate) : r_log[k].ok
              /\ LogOf("tag_created", crate) # {}

C30_Witness ==
  /\ r_options.dry_run
  /\ ~r_options.skip_publish
  /\ r_pc = "done"
  /\ r_singles # <<>>
  /\ r_group # <<>>

\* ------------------------------------------------------- planning
NoDuplicates(seq) == \A i, j \in 1..Len(seq) : seq[i] = seq[j] => i = j

\* the packages reached from set over the dependencies of workspace
\* members: a package outside the workspace is reached, and the search
\* does not go on from it
RECURSIVE WorkspaceReach(_, _, _)
WorkspaceReach(m, set, fuel) ==
  IF fuel = 0
    THEN set
    ELSE WorkspaceReach(
           m,
           set \cup {d.to : d \in {e \in m.dependencies :
                                     e.from \in set /\ e.from \in m.workspace_members}},
           fuel - 1)

\* some workspace package reachable from source depends on destination
LinksBack(m, source, destination) ==
  \E w \in WorkspaceReach(m, {source}, Cardinality(m.packages)) :
    /\ w \in m.workspace_members
    /\ \E d \in m.dependencies : d.from = w /\ d.to = destination

HopsReturned == hops.result \in {"Some", "None"}

\* --------------------------------------------------------------- C31
\* the publish set holds a crate that links to a workspace member outside
\* the publish set, over a dependency that is not a normal one, and that
\* member links back to the crate
Unstable(m, to_publish) ==
  \E p \in Range(to_publish), w \in m.workspace_members \ Range(to_publish) :
    /\ \E d \in m.dependencies : d.from = p /\ d.to = w /\ d.kind # "normal"
    /\ LinksBack(m, w, p)

C32_ReleasedAtMostOnce ==
  plan.pc = "planned" =>
    /\ NoDuplicates(r_singles)
    /\ NoDuplicates(r_group)
    /\ Range(r_singles) \cap Range(r_group) = {}
    /\ Range(r_singles) \cup Range(r_group)
         = Range(plan.changed_crate_names_to_publish)
    /\ NoDuplicates(plan.changed_crate_names_to_publish)

\* a name was passed twice, its crate depends on another crate that
\* changed, and the two are released together
C32_Witness ==
  /\ plan.pc = "planned"
  /\ Len(plan.crate_names) >= 2
  /\ plan.crate_names[1] = plan.crate_names[2]
  /\ Len(r_group) >= 2
  /\ \E d \in meta.dependencies :
       d.from = plan.crate_names[1] /\ d.kind = "normal" /\ d.to \in Range(r_group)

====
